---------------------------- MODULE Spec2Model ----------------------------
(***************************************************************************)
(* The CGI scripts www/cgi-bin/hello.py and www/cgi-bin/test.py.           *)
(*                                                                         *)
(* A character is a one-character string; a Python str is a sequence of    *)
(* characters.  What a script writes to stdout is the sequence `out' of    *)
(* tokens: a token is a character, a line terminator ("\n", "\r") or a     *)
(* literal piece of the script's own text (longer than one character, so   *)
(* that it can never be confused with a character that came from the       *)
(* request).                                                               *)
(***************************************************************************)
EXTENDS Integers, Sequences, FiniteSets, TLC

VARIABLES script, environ, pc, exit, qs, params, name, method, out

vars == <<script, environ, pc, exit, qs, params, name, method, out>>

-----------------------------------------------------------------------------
(* Characters, bytes and strings                                           *)

\* The printable ASCII characters, code points 32..126 in order (the grave accent,
\* which a TLA+ string cannot hold, is written U+96).
Printable ==
  << " ", "!", "\"", "#", "$", "%", "&", "'", "(", ")", "*", "+", ",", "-", ".", "/",
     "0", "1", "2", "3", "4", "5", "6", "7", "8", "9", ":", ";", "<", "=", ">", "?",
     "@", "A", "B", "C", "D", "E", "F", "G", "H", "I", "J", "K", "L", "M", "N", "O",
     "P", "Q", "R", "S", "T", "U", "V", "W", "X", "Y", "Z", "[", "\\", "]", "^", "_",
     "U+96", "a", "b", "c", "d", "e", "f", "g", "h", "i", "j", "k", "l", "m", "n", "o",
     "p", "q", "r", "s", "t", "u", "v", "w", "x", "y", "z", "{", "|", "}", "~" >>

PrintableSet == { Printable[i] : i \in 1..Len(Printable) }

\* The character of a code point; outside printable ASCII it is written U+<decimal>.
Chr(cp) == IF cp \in 32..126 THEN Printable[cp - 31] ELSE "U+" \o ToString(cp)

\* str.encode('utf-8') of one printable ASCII character: its byte.
OrdOf == [ c \in PrintableSet |-> CHOOSE b \in 32..126 : Printable[b - 31] = c ]

Ord(c) == OrdOf[c]

\* s.split(sep) for a one-character separator: the pieces, one more than the separators.
RECURSIVE SplitFrom(_, _, _)
SplitFrom(s, sep, cur) ==
  IF s = <<>> THEN << cur >>
  ELSE IF s[1] = sep THEN << cur >> \o SplitFrom(Tail(s), sep, <<>>)
  ELSE SplitFrom(Tail(s), sep, Append(cur, s[1]))

Split(s, sep) == SplitFrom(s, sep, <<>>)

\* s.replace(c, r) for a one-character pattern c and a replacement string r.
RECURSIVE Replace(_, _, _)
Replace(s, c, r) ==
  IF s = <<>> THEN <<>>
  ELSE (IF s[1] = c THEN r ELSE << s[1] >>) \o Replace(Tail(s), c, r)

\* The index of the first c in s, 0 when there is none.
IndexOf(s, c) ==
  IF \E i \in 1..Len(s) : s[i] = c
  THEN CHOOSE i \in 1..Len(s) : s[i] = c /\ \A j \in 1..(i - 1) : s[j] # c
  ELSE 0

-----------------------------------------------------------------------------
(* html.escape(s), quote=True                                              *)

\* html.escape(s, quote=False): the quotation marks are left as they are.
html_escape_noquote(s) ==
  LET s1 == Replace(s,  "&",  << "&", "a", "m", "p", ";" >>)
      s2 == Replace(s1, "<",  << "&", "l", "t", ";" >>)
      s3 == Replace(s2, ">",  << "&", "g", "t", ";" >>)
  IN  s3

\* html.escape: five replacements in this order, "&" first.
html_escape(s) ==
  LET s1 == Replace(s,  "&",  << "&", "a", "m", "p", ";" >>)
      s2 == Replace(s1, "<",  << "&", "l", "t", ";" >>)
      s3 == Replace(s2, ">",  << "&", "g", "t", ";" >>)
      s4 == Replace(s3, "\"", << "&", "q", "u", "o", "t", ";" >>)
      s5 == Replace(s4, "'",  << "&", "#", "x", "2", "7", ";" >>)
  IN  s5

-----------------------------------------------------------------------------
(* urllib.parse.unquote(string, encoding='utf-8', errors='replace')        *)

HexDigits ==
  { "0", "1", "2", "3", "4", "5", "6", "7", "8", "9",
    "A", "B", "C", "D", "E", "F", "a", "b", "c", "d", "e", "f" }

HexVal(c) ==
  LET b == Ord(c)
  IN  IF b <= 57 THEN b - 48 ELSE IF b <= 70 THEN b - 55 ELSE b - 87

EncodeAscii(s) == [ i \in 1..Len(s) |-> Ord(s[i]) ]

\* One piece after a "%": two hex digits become one byte, anything else keeps its "%".
UnquoteItem(item) ==
  IF Len(item) >= 2 /\ item[1] \in HexDigits /\ item[2] \in HexDigits
  THEN << 16 * HexVal(item[1]) + HexVal(item[2]) >> \o EncodeAscii(SubSeq(item, 3, Len(item)))
  ELSE << Ord("%") >> \o EncodeAscii(item)

RECURSIVE UnquoteItems(_)
UnquoteItems(bits) ==
  IF bits = <<>> THEN <<>> ELSE UnquoteItem(bits[1]) \o UnquoteItems(Tail(bits))

\* unquote_to_bytes: split on "%", keep the first piece, decode the others.
unquote_to_bytes(s) ==
  LET bits == Split(s, "%")
  IN  EncodeAscii(bits[1]) \o UnquoteItems(Tail(bits))

\* UTF-8: the length of the sequence a lead byte starts (0: not a lead byte).
Utf8Len(b) ==
  IF b \in 194..223 THEN 2 ELSE IF b \in 224..239 THEN 3 ELSE IF b \in 240..244 THEN 4 ELSE 0

\* UTF-8: the range of the byte that may follow lead byte b.
Utf8Second(b) ==
  IF b = 224 THEN 160..191
  ELSE IF b = 237 THEN 128..159
  ELSE IF b = 240 THEN 144..191
  ELSE IF b = 244 THEN 128..143
  ELSE 128..191

\* How many of the bytes after the lead byte bs[1] continue its sequence.
Utf8Continues(bs) ==
  LET n == Utf8Len(bs[1])
      ok(i) == i <= Len(bs) /\ (IF i = 2 THEN bs[i] \in Utf8Second(bs[1]) ELSE bs[i] \in 128..191)
      good == { k \in 0..3 : k < n /\ \A i \in 2..(k + 1) : ok(i) }
  IN  CHOOSE k \in good : \A j \in good : j <= k

Utf8CodePoint(bs, n) ==
  IF n = 2 THEN (bs[1] - 192) * 64 + (bs[2] - 128)
  ELSE IF n = 3 THEN (bs[1] - 224) * 4096 + (bs[2] - 128) * 64 + (bs[3] - 128)
  ELSE (bs[1] - 240) * 262144 + (bs[2] - 128) * 4096 + (bs[3] - 128) * 64 + (bs[4] - 128)

\* bytes.decode('utf-8', 'replace'): an ill-formed subsequence becomes one U+FFFD.
RECURSIVE utf8_decode(_)
utf8_decode(bs) ==
  IF bs = <<>> THEN <<>>
  ELSE IF bs[1] < 128 THEN << Chr(bs[1]) >> \o utf8_decode(Tail(bs))
  ELSE LET n == Utf8Len(bs[1])
           k == IF n = 0 THEN 0 ELSE Utf8Continues(bs)
       IN  IF n > 0 /\ k = n - 1
           THEN << Chr(Utf8CodePoint(bs, n)) >> \o utf8_decode(SubSeq(bs, n + 1, Len(bs)))
           ELSE << Chr(65533) >> \o utf8_decode(SubSeq(bs, k + 2, Len(bs)))

\* No decoding at all: the value as it is in the query string.
unquote_none(s) == s

unquote(s) ==
  IF \A i \in 1..Len(s) : s[i] # "%" THEN s ELSE utf8_decode(unquote_to_bytes(s))


-----------------------------------------------------------------------------
(* urllib.parse.parse_qs(qs): keep_blank_values=False, strict_parsing=False, *)
(* separator='&'                                                             *)

\* parse_qs(qs, keep_blank_values=True)
keep_blank_values_on == TRUE

keep_blank_values == FALSE

\* parse_qs(qs, strict_parsing=True)
strict_parsing_on == TRUE

strict_parsing == FALSE

\* name_value.split('=', 1): one piece without "=", else the name and the rest.
SplitFirstEq(nv) ==
  LET i == IndexOf(nv, "=")
  IN  IF i = 0 THEN << nv >> ELSE << SubSeq(nv, 1, i - 1), SubSeq(nv, i + 1, Len(nv)) >>

\* A field over which parse_qsl raises ValueError("bad query field").
BadField(name_value) == strict_parsing /\ Len(SplitFirstEq(name_value)) # 2

\* The (name, value) pairs one field adds to parse_qsl's result: one or none.
FieldPairs(name_value) ==
  IF name_value = <<>> /\ ~strict_parsing THEN <<>>
  ELSE LET nv0 == SplitFirstEq(name_value)
           nv  == IF Len(nv0) # 2 /\ keep_blank_values THEN Append(nv0, <<>>) ELSE nv0
       IN  IF Len(nv) # 2 THEN <<>>
           ELSE IF Len(nv[2]) > 0 \/ keep_blank_values
                THEN << << unquote(Replace(nv[1], "+", << " " >>)),
                           unquote(Replace(nv[2], "+", << " " >>)) >> >>
                ELSE <<>>

\* qs.split('&') if qs else []
QueryArgs(q) == IF q = <<>> THEN <<>> ELSE Split(q, "&")

RECURSIVE PairsOf(_)
PairsOf(args) == IF args = <<>> THEN <<>> ELSE FieldPairs(args[1]) \o PairsOf(Tail(args))

parse_qsl(q) == PairsOf(QueryArgs(q))

parse_qsl_raises(q) == \E i \in 1..Len(QueryArgs(q)) : BadField(QueryArgs(q)[i])

EmptyDict == [ k \in {} |-> <<>> ]

\* parsed_result[name].insert(0, value): the latest value of a name comes first.
DictAdd_prepend(d, k, v) ==
  [ x \in DOMAIN d \cup {k} |->
      IF x = k THEN (IF k \in DOMAIN d THEN << v >> \o d[k] ELSE << v >>) ELSE d[x] ]

\* parsed_result[name].append(value) if name in parsed_result else parsed_result[name] = [value]
DictAdd(d, k, v) ==
  [ x \in DOMAIN d \cup {k} |->
      IF x = k THEN (IF k \in DOMAIN d THEN Append(d[k], v) ELSE << v >>) ELSE d[x] ]

RECURSIVE DictFrom(_, _)
DictFrom(d, pairs) ==
  IF pairs = <<>> THEN d ELSE DictFrom(DictAdd(d, pairs[1][1], pairs[1][2]), Tail(pairs))

parse_qs(q) == DictFrom(EmptyDict, parse_qsl(q))

\* dict.get(key, default)
dict_get(d, k, default) == IF k \in DOMAIN d THEN d[k] ELSE default

\* os.environ.get(key, default)
environ_get(env, k, default) == IF k \in DOMAIN env THEN env[k] ELSE default

-----------------------------------------------------------------------------
(* The text of the scripts                                                 *)

NameKey == << "n", "a", "m", "e" >>

\* hello.py line 8: the default of params.get
Nobody == << "N", "o", "b", "o", "d", "y" >>

\* test.py line 20: the default of os.environ.get
Unknown == << "U", "N", "K", "N", "O", "W", "N" >>

\* print("Status: 404 Not Found")
HelloStatus_404 == << "Status", ": ", "404", " Not Found" >>

\* hello.py line 11
HelloStatus == << "Status", ": ", "200", " OK" >>

\* print("Content-Type: text/html")
HelloContentType_nocharset == << "Content-Type", ": ", "text/html" >>

\* hello.py line 12
HelloContentType == << "Content-Type", ": ", "text/html", "; charset=utf-8" >>

\* hello.py line 13: print()
HelloBlank == <<>>

\* hello.py lines 15-25, up to the replacement field
HelloBodyHead ==
  << "<!doctype html>", "\n",
     "<html lang=\"en\">", "\n",
     "<head>", "\n",
     "  <meta charset=\"utf-8\">", "\n",
     "  <title>CGI Hello</title>", "\n",
     "  <link rel=\"stylesheet\" href=\"/static/style.css\">", "\n",
     "</head>", "\n",
     "\n",
     "<body class=\"demo-page\">", "\n",
     "  <main class=\"container demo-wrap\">", "\n",
     "    <h1 class=\"demo-title\">", "H", "e", "l", "l", "o", ",", " " >>

\* hello.py lines 25-34, after the replacement field
HelloBodyTail ==
  << "!", "</h1>", "\n",
     "    <p class=\"demo-text\">This is a CGI response (dynamic).</p>", "\n",
     "\n",
     "    <div class=\"form-actions form-actions-gap\">", "\n",
     "      <a class=\"button button-lg\" href=\"/demo/cgi.html\">Back</a>", "\n",
     "      <a class=\"button button-lg\" href=\"/\">Home</a>", "\n",
     "    </div>", "\n",
     "  </main>", "\n",
     "</body>", "\n",
     "</html>" >>

\* The f-string of hello.py lines 15-34 with `name' in its replacement field.
HelloBody(n) == HelloBodyHead \o n \o HelloBodyTail

\* hello.py: the statements in order, by line.
HelloLines == << 6, 7, 8, 9, 11, 12, 13, 15 >>

\* test.py line 6
TestContentType == << "Content-Type", ": ", "text/html", "\r" >>

\* print("\r\n"): the line terminator of print comes on top.
TestBlank_crlf == << "\r", "\n" >>

\* test.py line 7
TestBlank == << "\r" >>

\* test.py: the statements in order, by line.
TestLines == << 6, 7, 9, 10, 11, 12, 13, 14, 15, 16, 17, 20, 21, 23, 24 >>

\* test.py: what the print of a literal on line l writes.
TestLiteral(l) ==
  CASE l = 6  -> TestContentType
    [] l = 7  -> TestBlank
    [] l = 9  -> << "<!DOCTYPE html>" >>
    [] l = 10 -> << "<html>" >>
    [] l = 11 -> << "<head>" >>
    [] l = 12 -> << "  <meta charset='UTF-8'>" >>
    [] l = 13 -> << "  <title>CGI Test</title>" >>
    [] l = 14 -> << "</head>" >>
    [] l = 15 -> << "<body>" >>
    [] l = 16 -> << "  <h1>Hello from CGI!</h1>" >>
    [] l = 17 -> << "  <p>If you can see this, it means that CGI handling is working.</p>" >>
    [] l = 23 -> << "</body>" >>
    [] l = 24 -> << "</html>" >>

TestLiteralLines == { 6, 7, 9, 10, 11, 12, 13, 14, 15, 16, 17, 23, 24 }

\* test.py line 21: the f-string with `method' in its replacement field.
TestMethodLine(m) == << "  <p>Request method: <strong>" >> \o m \o << "</strong></p>" >>

\* The line of the statement after line l (0 after the last one).
TestAfter(l) ==
  LET i == CHOOSE j \in 1..Len(TestLines) : TestLines[j] = l
  IN  IF i = Len(TestLines) THEN 0 ELSE TestLines[i + 1]

\* print(s): the string and the line terminator "\n".
print(o, s) == o \o s \o << "\n" >>

-----------------------------------------------------------------------------
(* The requests the hosting environment makes                              *)

\* The most pieces a generated value of a field is made of.
MaxUnits == 2

\* The most fields a generated query string of whole fields has.
MaxPairs == 3

\* Pieces of a field's value: plain, raw special characters, percent-escapes
\* (of "&" and "<"), "+", and malformed escapes.
ValueUnits ==
  { << "W" >>, << "<" >>, << ">" >>, << "\"" >>, << "'" >>, << "+" >>,
    << "%", "2", "6" >>, << "%", "3", "C" >>, << "%" >>, << "%", "Z", "Z" >> }

RECURSIVE Values(_)
Values(n) ==
  IF n = 0 THEN { <<>> }
  ELSE Values(n - 1) \cup { v \o u : v \in Values(n - 1), u \in ValueUnits }

\* Field names: name, n%61me (name, percent-encoded) and another parameter.
FieldNames == { NameKey, << "n", "%", "6", "1", "m", "e" >>, << "x" >> }

\* One field, with every generated value or with no "=" at all.
OneField ==
  { k \o << "=" >> \o v : k \in FieldNames, v \in Values(MaxUnits) } \cup FieldNames

\* Whole fields: name=W, name=, n%61me=%3C, x=W, name, the empty field, =W,
\* name=%C3%A9%FF (UTF-8 and a byte that is not), name=%3 (a cut escape).
Fields ==
  { NameKey \o << "=", "W" >>,
    NameKey \o << "=" >>,
    << "n", "%", "6", "1", "m", "e", "=", "%", "3", "C" >>,
    << "x", "=", "W" >>,
    NameKey,
    <<>>,
    << "=", "W" >>,
    NameKey \o << "=", "%", "C", "3", "%", "A", "9", "%", "F", "F" >>,
    NameKey \o << "=", "%", "3" >> }

\* The fields joined by "&".
RECURSIVE Join(_)
Join(fs) ==
  IF fs = <<>> THEN <<>>
  ELSE IF Len(fs) = 1 THEN fs[1]
  ELSE fs[1] \o << "&" >> \o Join(Tail(fs))

RECURSIVE FieldSeqs(_)
FieldSeqs(n) ==
  IF n = 0 THEN { <<>> }
  ELSE FieldSeqs(n - 1) \cup { Append(fs, f) : fs \in FieldSeqs(n - 1), f \in Fields }

\* The query strings of the specification's examples:
\* name=World, name=%3Cscript%3E, name=Ann%20Lee.
Examples ==
  { NameKey \o << "=", "W", "o", "r", "l", "d" >>,
    NameKey \o << "=", "%", "3", "C", "s", "c", "r", "i", "p", "t", "%", "3", "E" >>,
    NameKey \o << "=", "A", "n", "n", "%", "2", "0", "L", "e", "e" >> }

QueryStrings == OneField \cup { Join(fs) : fs \in FieldSeqs(MaxPairs) } \cup Examples

Methods ==
  { << "G", "E", "T" >>, << "P", "O", "S", "T" >>, << "<", "b", ">" >>,
    << "G", "&", "T" >>, << "'" >>, << "\"" >> }

\* The process environment: the variables that are set, with their values.
Env(hasQ, q, hasM, m) ==
  [ k \in (IF hasQ THEN { "QUERY_STRING" } ELSE {}) \cup (IF hasM THEN { "REQUEST_METHOD" } ELSE {})
      |-> IF k = "QUERY_STRING" THEN q ELSE m ]

\* hello.py is run over every generated query string, test.py over every method.
HelloEnvs ==
  { Env(TRUE, q, hasM, << "G", "E", "T" >>) : q \in QueryStrings, hasM \in BOOLEAN }
    \cup { Env(FALSE, <<>>, TRUE, m) : m \in Methods }
    \cup { Env(FALSE, <<>>, FALSE, <<>>) }

TestEnvs ==
  { Env(hasQ, NameKey \o << "=", "W" >>, TRUE, m) : hasQ \in BOOLEAN, m \in Methods }
    \cup { Env(hasQ, NameKey \o << "=", "<" >>, FALSE, <<>>) : hasQ \in BOOLEAN }

-----------------------------------------------------------------------------
(* The two scripts, statement by statement: pc is the line of the next     *)
(* statement, exit tells whether the process runs, has ended, or has died  *)
(* of an uncaught exception.                                               *)

Init ==
  /\ script \in { "hello", "test" }
  /\ environ \in (IF script = "hello" THEN HelloEnvs ELSE TestEnvs)
  /\ pc = 6
  /\ exit = "running"
  /\ qs = <<>>
  /\ params = EmptyDict
  /\ name = <<>>
  /\ method = <<>>
  /\ out = <<>>

Running(s, l) == script = s /\ exit = "running" /\ pc = l

\* hello.py line 6: qs = os.environ.get("QUERY_STRING", "")
HelloReadQuery ==
  /\ Running("hello", 6)
  /\ qs' = environ_get(environ, "QUERY_STRING", <<>>)
  /\ pc' = 7
  /\ UNCHANGED <<script, environ, exit, params, name, method, out>>

\* hello.py line 7: params = urllib.parse.parse_qs(qs)
HelloParse ==
  /\ Running("hello", 7)
  /\ IF parse_qsl_raises(qs)
     THEN exit' = "error" /\ UNCHANGED <<pc, params>>
     ELSE params' = parse_qs(qs) /\ pc' = 8 /\ UNCHANGED exit
  /\ UNCHANGED <<script, environ, qs, name, method, out>>

\* name = params.get("name", ["Nobody"])[-1]
HelloGetName_last ==
  /\ Running("hello", 8)
  /\ LET values == dict_get(params, NameKey, << Nobody >>)
     IN  IF values = <<>>
         THEN exit' = "error" /\ UNCHANGED <<pc, name>>
         ELSE name' = values[Len(values)] /\ pc' = 9 /\ UNCHANGED exit
  /\ UNCHANGED <<script, environ, qs, params, method, out>>

\* hello.py line 8: name = params.get("name", ["Nobody"])[0]
HelloGetName ==
  /\ Running("hello", 8)
  /\ LET values == dict_get(params, NameKey, << Nobody >>)
     IN  IF values = <<>>
         THEN exit' = "error" /\ UNCHANGED <<pc, name>>
         ELSE name' = values[1] /\ pc' = 9 /\ UNCHANGED exit
  /\ UNCHANGED <<script, environ, qs, params, method, out>>

\* hello.py line 9: name = html.escape(name)
HelloEscape ==
  /\ Running("hello", 9)
  /\ name' = html_escape(name)
  /\ pc' = 11
  /\ UNCHANGED <<script, environ, exit, qs, params, method, out>>

\* hello.py line 11: print("Status: 200 OK")
HelloPrintStatus ==
  /\ Running("hello", 11)
  /\ out' = print(out, HelloStatus)
  /\ pc' = 12
  /\ UNCHANGED <<script, environ, exit, qs, params, name, method>>

\* hello.py line 12: print("Content-Type: text/html; charset=utf-8")
HelloPrintContentType ==
  /\ Running("hello", 12)
  /\ out' = print(out, HelloContentType)
  /\ pc' = 13
  /\ UNCHANGED <<script, environ, exit, qs, params, name, method>>

\* hello.py line 13: print()
HelloPrintBlank ==
  /\ Running("hello", 13)
  /\ out' = print(out, HelloBlank)
  /\ pc' = 15
  /\ UNCHANGED <<script, environ, exit, qs, params, name, method>>

\* hello.py lines 15-34: print(f"""...{name}..."""), the last statement
HelloPrintBody ==
  /\ Running("hello", 15)
  /\ out' = print(out, HelloBody(name))
  /\ exit' = "ok"
  /\ UNCHANGED <<script, environ, pc, qs, params, name, method>>

\* test.py lines 6, 7, 9-17, 23, 24: print of a literal
TestPrintLiteral ==
  /\ script = "test" /\ exit = "running" /\ pc \in TestLiteralLines
  /\ out' = print(out, TestLiteral(pc))
  /\ IF TestAfter(pc) = 0
     THEN exit' = "ok" /\ UNCHANGED pc
     ELSE pc' = TestAfter(pc) /\ UNCHANGED exit
  /\ UNCHANGED <<script, environ, qs, params, name, method>>

\* test.py line 20: method = os.environ.get("REQUEST_METHOD", "UNKNOWN")
TestReadMethod ==
  /\ Running("test", 20)
  /\ method' = environ_get(environ, "REQUEST_METHOD", Unknown)
  /\ pc' = TestAfter(pc)
  /\ UNCHANGED <<script, environ, exit, qs, params, name, out>>

\* test.py line 21: print(f"  <p>Request method: <strong>{method}</strong></p>")
TestPrintMethod ==
  /\ Running("test", 21)
  /\ out' = print(out, TestMethodLine(method))
  /\ pc' = TestAfter(pc)
  /\ UNCHANGED <<script, environ, exit, qs, params, name, method>>

Next ==
  \/ HelloReadQuery
  \/ HelloParse
  \/ HelloGetName
  \/ HelloEscape
  \/ HelloPrintStatus
  \/ HelloPrintContentType
  \/ HelloPrintBlank
  \/ HelloPrintBody
  \/ TestPrintLiteral
  \/ TestReadMethod
  \/ TestPrintMethod

Spec == Init /\ [][Next]_vars

-----------------------------------------------------------------------------
(* Reading a response                                                      *)

\* The lines of an output: the pieces that end in "\n", without a trailing "\r".
StripCR(l) == IF l # <<>> /\ l[Len(l)] = "\r" THEN SubSeq(l, 1, Len(l) - 1) ELSE l

Lines(o) ==
  LET p == Split(o, "\n")
  IN  [ i \in 1..(Len(p) - 1) |-> StripCR(p[i]) ]

\* The index of the first empty line, 0 when there is none.
FirstBlank(ls) == IndexOf(ls, <<>>)

\* A line of the shape Header-Name: value.
IsHeaderLine(l) == Len(l) >= 3 /\ l[2] = ": "

\* The lines before the first empty line.
HeaderBlock(ls) == SubSeq(ls, 1, FirstBlank(ls) - 1)

\* The text between two literal pieces of an output that holds both.
Between(o, open, close) == SubSeq(o, IndexOf(o, open) + 1, IndexOf(o, close) - 1)

\* hello.py: the text of the heading, "Hello, <name>!", and the name in it.
Greeting == Between(out, "    <h1 class=\"demo-title\">", "</h1>")

HelloComma == << "H", "e", "l", "l", "o", ",", " " >>

ShownName == SubSeq(Greeting, Len(HelloComma) + 1, Len(Greeting) - 1)

\* test.py: the method written between <strong> and </strong>.
ShownMethod == Between(out, "  <p>Request method: <strong>", "</strong></p>")

HelloDone == script = "hello" /\ exit = "ok"

TestDone == script = "test" /\ exit = "ok"

\* The query string a request carries ("" when QUERY_STRING is not set).
Query == IF "QUERY_STRING" \in DOMAIN environ THEN environ["QUERY_STRING"] ELSE <<>>

-----------------------------------------------------------------------------
(* What the specification asks of a response, stated on the request itself *)

\* The entity of a character of markup, the character itself otherwise.
Entity(c) ==
  CASE c = "&"  -> << "&", "a", "m", "p", ";" >>
    [] c = "<"  -> << "&", "l", "t", ";" >>
    [] c = ">"  -> << "&", "g", "t", ";" >>
    [] c = "\"" -> << "&", "q", "u", "o", "t", ";" >>
    [] c = "'"  -> << "&", "#", "x", "2", "7", ";" >>
    [] OTHER    -> << c >>

RECURSIVE Escaped(_)
Escaped(s) == IF s = <<>> THEN <<>> ELSE Entity(s[1]) \o Escaped(Tail(s))

Entities == { Entity("&"), Entity("<"), Entity(">"), Entity("\""), Entity("'") }

\* No raw < > " ' in s, and every & of s begins one of the five entities.
NoRawMarkup(s) ==
  /\ \A i \in 1..Len(s) : s[i] \notin { "<", ">", "\"", "'" }
  /\ \A i \in 1..Len(s) :
       s[i] = "&" => \E e \in Entities :
                       i + Len(e) - 1 <= Len(s) /\ SubSeq(s, i, i + Len(e) - 1) = e

\* application/x-www-form-urlencoded decoding, read left to right: "+" is a
\* space, "%" and two hex digits are a byte, the bytes are UTF-8.
RECURSIVE FormBytes(_)
FormBytes(v) ==
  IF v = <<>> THEN <<>>
  ELSE IF v[1] = "+" THEN << 32 >> \o FormBytes(Tail(v))
  ELSE IF v[1] = "%" /\ Len(v) >= 3 /\ v[2] \in HexDigits /\ v[3] \in HexDigits
       THEN << 16 * HexVal(v[2]) + HexVal(v[3]) >> \o FormBytes(SubSeq(v, 4, Len(v)))
  ELSE << Ord(v[1]) >> \o FormBytes(Tail(v))

FormDecoded(v) == utf8_decode(FormBytes(v))

\* The fields of the query string that are name=<value>, and their raw values.
IsNameField(f) ==
  IndexOf(f, "=") > 0 /\ FormDecoded(SubSeq(f, 1, IndexOf(f, "=") - 1)) = NameKey

RawValue(f) == SubSeq(f, IndexOf(f, "=") + 1, Len(f))

NameFields == SelectSeq(Split(Query, "&"), IsNameField)

HasValue(f) == RawValue(f) # <<>>

NonEmptyNameFields == SelectSeq(NameFields, HasValue)

\* The name the greeting is to show when the first non-empty name value wins.
FirstNonEmptyName ==
  IF NonEmptyNameFields = <<>> THEN Nobody
  ELSE Escaped(FormDecoded(RawValue(NonEmptyNameFields[1])))

-----------------------------------------------------------------------------
(* The claims                                                              *)

\* C1: whatever name the query string supplies, the name hello.py shows in its
\* body is the HTML-escaped form of the decoded name: each & < > " ' of it is
\* there as its entity, and no raw < > " ' is.
C1_NameIsEscaped ==
  (HelloDone /\ NameKey \in DOMAIN params) =>
    /\ Greeting = HelloComma \o Escaped(params[NameKey][1]) \o << "!" >>
    /\ NoRawMarkup(ShownName)

\* A name with a percent-encoded & and a raw < was shown.
C1_Witness ==
  /\ HelloDone
  /\ NameKey \in DOMAIN params
  /\ params[NameKey][1] = << "&", "<" >>

\* C2: in both scripts every value of the request written into the body (the
\* name in hello.py, the request method in test.py) is HTML-escaped.
C2_NoRawInput ==
  /\ HelloDone => NoRawMarkup(ShownName)
  /\ TestDone => NoRawMarkup(ShownMethod)

\* C3: hello.py greets Nobody exactly when the query string has no name field
\* with a non-empty value (QUERY_STRING unset or empty, no name field, name=).
\* No generated value decodes to the word Nobody itself.
C3_DefaultName ==
  HelloDone =>
    /\ (NonEmptyNameFields = <<>>) <=> (Greeting = HelloComma \o Nobody \o << "!" >>)
    /\ (NonEmptyNameFields # <<>>) => ShownName # <<>>

\* name= (an empty value) was answered with the default.
C3_Witness ==
  /\ HelloDone
  /\ Query = NameKey \o << "=" >>
  /\ ShownName = Nobody

\* C4, as claimed: the output of each script starts with a status line that
\* reports 200.
C4_StatusLineEverywhere ==
  exit = "ok" =>
    LET first == Lines(out)[1]
    IN  Len(first) >= 3 /\ first[1] = "Status" /\ first[2] = ": " /\ first[3] = "200"

\* C4, amended: the output of hello.py starts with the status line
\* Status: 200 OK; test.py writes no status line, its output starts with the
\* Content-Type header.
C4_StatusLine ==
  /\ HelloDone => Lines(out)[1] = << "Status", ": ", "200", " OK" >>
  /\ TestDone =>
       /\ Lines(out)[1][1] = "Content-Type"
       /\ \A i \in 1..Len(HeaderBlock(Lines(out))) : HeaderBlock(Lines(out))[i][1] # "Status"

\* hello.py has answered a request with a query string.
C4_Witness == HelloDone /\ Query # <<>> /\ Lines(out)[1][3] = "200"

\* C5: at every moment the output is header lines, then (once written) one
\* empty line, then the body: no header line follows the empty line, and the
\* line after it is the first line of the body, with "\n" and with "\r\n".
C5_OneBlankLine ==
  LET ls == Lines(out)
      k  == FirstBlank(ls)
  IN  /\ \A i \in 1..Len(ls) : (k = 0 \/ i < k) => IsHeaderLine(ls[i])
      /\ \A i \in 1..Len(ls) : (k > 0 /\ i > k) => ~IsHeaderLine(ls[i])
      /\ k > 0 => k >= 2
      /\ (k > 0 /\ Len(ls) > k) =>
           ls[k + 1] \in { << "<!doctype html>" >>, << "<!DOCTYPE html>" >> }
      /\ exit = "ok" => (k > 0 /\ Len(ls) > k)

\* test.py, which ends its header lines with "\r\n", has written its response.
C5_Witness == TestDone /\ FirstBlank(Lines(out)) = 2 /\ out[4] = "\r" /\ out[6] = "\r"

\* C6, as claimed: the header block of every response of each script holds
\* Content-Type: text/html; charset=utf-8.
C6_CharsetEverywhere ==
  exit = "ok" =>
    \E i \in 1..Len(HeaderBlock(Lines(out))) :
      HeaderBlock(Lines(out))[i] = << "Content-Type", ": ", "text/html", "; charset=utf-8" >>

\* C6, amended: the header block of hello.py holds
\* Content-Type: text/html; charset=utf-8, that of test.py holds
\* Content-Type: text/html with no charset parameter.
C6_ContentType ==
  LET hs == HeaderBlock(Lines(out))
  IN  /\ HelloDone =>
           \E i \in 1..Len(hs) : hs[i] = << "Content-Type", ": ", "text/html", "; charset=utf-8" >>
      /\ TestDone => hs = << << "Content-Type", ": ", "text/html" >> >>

\* hello.py has written its header block, the Content-Type after the status.
C6_Witness == HelloDone /\ Len(HeaderBlock(Lines(out))) = 2

\* The query string has more than one name=<value> field.
RepeatedName == Len(NameFields) >= 2

\* C7, as claimed: with repeated name fields the greeting shows the value of
\* the leftmost one, also when that value is empty (the name is then empty, or
\* the default).
C7_LeftmostWins ==
  (HelloDone /\ RepeatedName) =>
    LET v == RawValue(NameFields[1])
    IN  IF v = <<>> THEN ShownName \in { <<>>, Nobody }
        ELSE ShownName = Escaped(FormDecoded(v))

\* C7, amended: with repeated name fields the greeting shows the value of the
\* leftmost name field whose value is not empty; name fields with an empty
\* value are skipped, and the default is shown when all are empty.
C7_FirstNonEmptyWins == (HelloDone /\ RepeatedName) => ShownName = FirstNonEmptyName

\* name=&name=W was answered with W.
C7_Witness ==
  /\ HelloDone
  /\ Len(NameFields) = 2
  /\ RawValue(NameFields[1]) = <<>>
  /\ RawValue(NameFields[2]) = << "W" >>
  /\ ShownName = << "W" >>

\* The query string is name=v for a non-empty v (a v without "&").
SingleName ==
  /\ "QUERY_STRING" \in DOMAIN environ
  /\ Len(Query) > Len(NameKey) + 1
  /\ SubSeq(Query, 1, Len(NameKey) + 1) = NameKey \o << "=" >>
  /\ IndexOf(Query, "&") = 0

\* C8: for the query string name=v the greeting is Hello, E(D(v))!, v decoded
\* first and escaped second; name=World gives Hello, World! and
\* name=%3Cscript%3E gives &lt;script&gt;.
C8_DecodeThenEscape ==
  (HelloDone /\ SingleName) =>
    LET v == SubSeq(Query, Len(NameKey) + 2, Len(Query))
    IN  /\ Greeting = HelloComma \o Escaped(FormDecoded(v)) \o << "!" >>
        /\ v = << "W", "o", "r", "l", "d" >> => ShownName = << "W", "o", "r", "l", "d" >>
        /\ v = << "%", "3", "C", "s", "c", "r", "i", "p", "t", "%", "3", "E" >> =>
             ShownName = << "&", "l", "t", ";", "s", "c", "r", "i", "p", "t", "&", "g", "t", ";" >>

\* name=%3Cscript%3E was answered.
C8_Witness ==
  /\ HelloDone
  /\ Query = NameKey \o << "=", "%", "3", "C", "s", "c", "r", "i", "p", "t", "%", "3", "E" >>
  /\ ShownName # <<>>

\* hello.py: a complete response, the three header lines and the twenty lines
\* of the document, the last one </html>.
HelloComplete ==
  LET ls == Lines(out)
  IN  /\ Len(ls) = 23
      /\ IsHeaderLine(ls[1]) /\ IsHeaderLine(ls[2]) /\ ls[3] = <<>>
      /\ ls[4] = << "<!doctype html>" >>
      /\ ls[23] = << "</html>" >>
      /\ out[Len(out)] = "\n"

\* C9: whatever the query string, malformed or not, the script never dies of
\* an exception and never stops short of its last statement, and at its end
\* it has written a complete response; the default name is shown when no
\* name field has a usable value.
C9_Total ==
  /\ exit # "error"
  /\ exit = "running" =>
       LET ls == IF script = "hello" THEN HelloLines ELSE TestLines
       IN  \E i \in 1..Len(ls) : pc = ls[i]
  /\ HelloDone => HelloComplete
  /\ (HelloDone /\ NonEmptyNameFields = <<>>) => ShownName = Nobody

\* name=%3&&name (a cut escape, an empty field, a field without "=") was
\* answered, with the cut escape left as it is.
C9_Witness ==
  /\ HelloDone
  /\ Query = NameKey \o << "=", "%", "3", "&", "&" >> \o NameKey
  /\ ShownName = << "%", "3" >>

\* The response of hello.py for a name to show: nothing else of the request is in it.
HelloResponse(shown) ==
  << "Status", ": ", "200", " OK", "\n",
     "Content-Type", ": ", "text/html", "; charset=utf-8", "\n",
     "\n" >> \o HelloBodyHead \o shown \o HelloBodyTail \o << "\n" >>

\* C10: the whole output of hello.py is a function of the first non-empty name
\* value alone (other fields, their order, later name values and the request
\* method do not matter), and its status line and header block are always
\* the same.
C10_OutputDependsOnNameOnly ==
  /\ HelloDone => out = HelloResponse(FirstNonEmptyName)
  /\ (script = "hello" /\ pc > 13) =>
       SubSeq(out, 1, 11) = SubSeq(HelloResponse(<<>>), 1, 11)

\* A request with another field before the name, a later name and no method.
C10_Witness ==
  /\ HelloDone
  /\ "REQUEST_METHOD" \notin DOMAIN environ
  /\ Query = << "x", "=", "W", "&" >> \o NameKey \o << "=", "%", "3", "&" >> \o NameKey \o << "=", "W" >>

=============================================================================
